---- MODULE Spec2Model ----
(***************************************************************************)
(* The Prombench scaler (tools/scaler/scaler.go): the `scale` action of    *)
(* the command line tool, which rewrites the replica count of the loaded   *)
(* deployments and applies them to the cluster in an endless loop, in the  *)
(* burst pattern (max, min, max, ...) or the step pattern (a ramp).        *)
(***************************************************************************)
EXTENDS Integers, Sequences, FiniteSets, TLC

VARIABLES
    patternName,         \* s.patternName
    min,                 \* s.min (int32)
    max,                 \* s.max (int32)
    interval,            \* s.interval
    scalingFactor,       \* s.scalingFactor (int32)
    argScalingFactor,    \* the scalingFactor argument as the command line gave it
    resources,           \* s.k8sClient.GetResources(): the loaded target set
    maxResourceObjects,  \* local of scale(), burst branch
    minResourceObjects,  \* local of scale(), burst branch
    resourceObjects,     \* local of scale(), step loop
    numberOfResources,   \* local of scale(), step branch (int32)
    pc,                  \* the statement scale() executes next
    applyArg,            \* the argument of the ResourceApply call in progress
    inflight,            \* number of ResourceApply calls in progress
    err,                 \* the result of the last ResourceApply that returned
    exitCode,            \* the code given to os.Exit, once pc = "exited"
    updateCalls,         \* history: number of updateReplicas calls made
    log                  \* history: the applies issued and the sleeps taken

vars == <<patternName, min, max, interval, scalingFactor, argScalingFactor, resources,
          maxResourceObjects, minResourceObjects, resourceObjects,
          numberOfResources, pc, applyArg, inflight, err, exitCode, updateCalls, log>>

cmdVars == <<patternName, min, max, interval, argScalingFactor>>

-----------------------------------------------------------------------------
(* Bounds of the model. *)

MaxSmall == 2        \* small replica counts and scaling factors: 0..MaxSmall
MaxInterval == 2     \* intervals: 1..MaxInterval
MaxApplies == 5      \* ResourceApply calls followed in one run
MaxFiles == 2        \* descriptors of a generated target set
MaxObjects == 2      \* objects of one generated descriptor

-----------------------------------------------------------------------------
(* int32 arithmetic: Go's signed addition wraps around, its division       *)
(* truncates toward zero.                                                  *)

MaxInt32 == 2147483647
MinInt32 == (-MaxInt32) - 1

AddInt32(a, b) ==
    IF b > 0 /\ a > MaxInt32 - b
    THEN ((a - MaxInt32) - 1) + ((b - MaxInt32) - 1)
    ELSE IF b < 0 /\ a < MinInt32 - b
         THEN ((a + MaxInt32) + 1) + ((b + MaxInt32) + 1)
         ELSE a + b

DivInt32(a, b) == IF a >= 0 THEN a \div b ELSE (a + (b - 1)) \div b

-----------------------------------------------------------------------------
(* Objects of the target set.  An object has a kind, a name and, as a      *)
(* deployment, Spec.Replicas: a *int32.  A pointer is modelled by the      *)
(* location it points to: "nil", the variables "max", "min" and            *)
(* "numberOfResources" of the scaler, or a cell of its own ("own" for the  *)
(* value decoded from the manifest, "copy" for the cell DeepCopyObject     *)
(* allocates) whose content is val.                                        *)

NilPtr == [loc |-> "nil", val |-> 0]
OwnPtr(v) == [loc |-> "own", val |-> v]
AddrOf(name) == [loc |-> name, val |-> 0]

Memory == [max |-> max, min |-> min, numberOfResources |-> numberOfResources]

Deref(p, mem) ==
    CASE p.loc = "max" -> mem.max
      [] p.loc = "min" -> mem.min
      [] p.loc = "numberOfResources" -> mem.numberOfResources
      [] OTHER -> p.val

ToLower(kind) ==
    CASE kind = "Deployment" -> "deployment"
      [] kind = "Service" -> "service"
      [] kind = "ConfigMap" -> "configmap"
      [] OTHER -> kind

IsDeployment(resource) == ToLower(resource.Kind) = "deployment"

(* DeepCopyObject, were the copy shallow: the replicas pointer is shared *)
DeepCopyObject_Shallow(req, mem) == req

DeepCopyObject(req, mem) ==
    IF req.Replicas.loc = "nil"
    THEN req
    ELSE [req EXCEPT !.Replicas = [loc |-> "copy", val |-> Deref(req.Replicas, mem)]]

(* req.Spec.Replicas = replicas *)
SetReplicas(req, replicas) == [req EXCEPT !.Replicas = replicas]

(* k8sObjects without the test of the kind *)
k8sObjects_NoKindCheck(deployment, replicas, mem) ==
    [i \in 1..Len(deployment.Objects) |->
        DeepCopyObject(SetReplicas(deployment.Objects[i], replicas), mem)]

(* the k8sObjects of one descriptor: for each of its deployments, in order, *)
(* the copy taken after its replicas pointer is set                         *)
k8sObjects(deployment, replicas, mem) ==
    LET reqs == SelectSeq(deployment.Objects, IsDeployment)
    IN [i \in 1..Len(reqs) |-> DeepCopyObject(SetReplicas(reqs[i], replicas), mem)]

(* NonEmpty, were the test of len(k8sObjects) left out *)
NonEmpty_Always(r) == TRUE

NonEmpty(r) == Len(r.Objects) > 0

(* the value updateReplicas returns *)
updateReplicas(res, replicas, mem) ==
    LET all == [i \in 1..Len(res) |->
                   [FileName |-> res[i].FileName,
                    Objects |-> k8sObjects(res[i], replicas, mem)]]
    IN SelectSeq(all, NonEmpty)

(* updatedResources, were the loaded set replaced by the set returned *)
updatedResources_KeepsResult(res, replicas) ==
    LET all == [i \in 1..Len(res) |->
                   [res[i] EXCEPT !.Objects =
                       LET reqs == SelectSeq(res[i].Objects, IsDeployment)
                       IN [j \in 1..Len(reqs) |-> SetReplicas(reqs[j], replicas)]]]
    IN SelectSeq(all, NonEmpty)

(* the target set as updateReplicas leaves it *)
updatedResources(res, replicas) ==
    [i \in 1..Len(res) |->
        [res[i] EXCEPT !.Objects =
            [j \in 1..Len(res[i].Objects) |->
                IF IsDeployment(res[i].Objects[j])
                THEN SetReplicas(res[i].Objects[j], replicas)
                ELSE res[i].Objects[j]]]]

-----------------------------------------------------------------------------
(* The history of a run: every ResourceApply call with its argument and    *)
(* the replica counts the argument carries when the call is made, and      *)
(* every time.Sleep with its duration.                                     *)

(* the replica counts a resource set carries, read through its pointers *)
CountsOf(arg, mem) ==
    UNION {{Deref(arg[i].Objects[j].Replicas, mem) : j \in 1..Len(arg[i].Objects)}
           : i \in 1..Len(arg)}

ApplyEvent(arg, mem) == [op |-> "apply", arg |-> arg, counts |-> CountsOf(arg, mem), d |-> 0]
SleepEvent(d) == [op |-> "sleep", arg |-> <<>>, counts |-> {}, d |-> d]

IsApply(e) == e.op = "apply"
Applies == SelectSeq(log, IsApply)
NumApplies == Len(Applies)

-----------------------------------------------------------------------------
(* Inputs.  The command line gives max, min, interval, patternName and     *)
(* scalingFactor (0 when not given); DeploymentsParse has loaded the       *)
(* target set before scale() runs.                                         *)

PatternNames == {"burst", "step", "foo"}

(* replica counts: small ones, the ones of the usage text and of the spec's *)
(* examples, and the largest int32 values                                   *)
ReplicaCounts == (0..MaxSmall) \cup {10, 20, 100} \cup {MaxInt32 - 1, MaxInt32}

ScalingFactors ==
    (-1..MaxSmall) \cup {10, 100} \cup {MinInt32, MaxInt32 - 1, MaxInt32}

Intervals == 1..MaxInterval

Deployment(name, replicas) == [Kind |-> "Deployment", Name |-> name, Replicas |-> replicas]
Other(kind, name) == [Kind |-> kind, Name |-> name, Replicas |-> NilPtr]

(* the target sets of the loop's runs: none, one deployment, and two       *)
(* manifests of which the first holds no deployment                        *)
LoopTargetSets ==
    { <<>>,
      << [FileName |-> 1, Objects |-> <<Deployment(11, OwnPtr(7))>>] >>,
      << [FileName |-> 1, Objects |-> <<Other("Service", 11)>>],
         [FileName |-> 2, Objects |-> <<Deployment(21, NilPtr), Other("ConfigMap", 22),
                                        Deployment(23, OwnPtr(7))>>] >> }

(* generated target sets: up to MaxFiles manifests of up to MaxObjects      *)
(* objects, each a deployment or not                                       *)
GenKinds == {"Deployment", "Service"}
KindSeqs == UNION {[1..n -> GenKinds] : n \in 0..MaxObjects}

GenDescriptor(i, kinds) ==
    [FileName |-> i,
     Objects |-> [j \in 1..Len(kinds) |->
                     IF kinds[j] = "Deployment"
                     THEN Deployment(10 * i + j, OwnPtr(7))
                     ELSE Other(kinds[j], 10 * i + j)]]

TargetSets ==
    UNION {{[i \in 1..n |-> GenDescriptor(i, ks[i])] : ks \in [1..n -> KindSeqs]}
           : n \in 0..MaxFiles}

InitLocals ==
    /\ maxResourceObjects = <<>>
    /\ minResourceObjects = <<>>
    /\ resourceObjects = <<>>
    /\ numberOfResources = 0
    /\ pc = "scale"
    /\ applyArg = <<>>
    /\ inflight = 0
    /\ err = "none"
    /\ exitCode = 0
    /\ updateCalls = 0
    /\ log = <<>>

Init ==
    /\ patternName \in PatternNames
    /\ min \in ReplicaCounts
    /\ max \in ReplicaCounts
    /\ min <= max
    /\ interval \in Intervals
    /\ scalingFactor \in ScalingFactors
    /\ argScalingFactor = scalingFactor
    /\ resources \in LoopTargetSets
    /\ InitLocals

(* every generated target set, under a few commands *)
InitTargets ==
    /\ patternName \in PatternNames
    /\ min \in 0..1
    /\ max = 3
    /\ interval = 1
    /\ scalingFactor = 1
    /\ argScalingFactor = scalingFactor
    /\ resources \in TargetSets
    /\ InitLocals

-----------------------------------------------------------------------------
(* The statements of scale(). *)

(* s.k8sClient.ResourceApply(arg) is called *)
ResourceApplyCall(arg, to) ==
    /\ NumApplies < MaxApplies
    /\ applyArg' = arg
    /\ inflight' = inflight + 1
    /\ log' = Append(log, ApplyEvent(arg, Memory))
    /\ pc' = to

(* what a ResourceApply call can return: nil, or an error of the cluster *)
ResourceApplyResults == {"nil", "error"}

(* ResourceApplyReturn, were the failed call made again *)
ResourceApplyReturn_RetriesOnError(to) ==
    /\ inflight > 0
    /\ \E e \in ResourceApplyResults :
          /\ err' = e
          /\ pc' = IF e = "nil" THEN to
                   ELSE CASE pc = "burst_in_apply_max" -> "burst_apply_max"
                          [] pc = "burst_in_apply_min" -> "burst_apply_min"
                          [] OTHER -> "step_apply"
    /\ inflight' = inflight - 1
    /\ applyArg' = <<>>
    /\ UNCHANGED <<exitCode, log>>

(* ResourceApplyReturn, were an error fatal *)
ResourceApplyReturn_FatalOnError(to) ==
    /\ inflight > 0
    /\ \E e \in ResourceApplyResults :
          /\ err' = e
          /\ pc' = IF e = "nil" THEN to ELSE "exited"
          /\ exitCode' = IF e = "nil" THEN exitCode ELSE 2
    /\ inflight' = inflight - 1
    /\ applyArg' = <<>>
    /\ UNCHANGED log

(* the call returns; an error is printed to stderr and nothing else is done *)
ResourceApplyReturn(to) ==
    /\ inflight > 0
    /\ \E e \in ResourceApplyResults : err' = e
    /\ inflight' = inflight - 1
    /\ applyArg' = <<>>
    /\ pc' = to
    /\ UNCHANGED <<exitCode, log>>

(* Sleep, were the sleep left out *)
Sleep_Skipped(to) ==
    /\ pc' = to
    /\ UNCHANGED <<applyArg, inflight, err, exitCode, log>>

(* time.Sleep(s.interval) *)
Sleep(to) ==
    /\ log' = Append(log, SleepEvent(interval))
    /\ pc' = to
    /\ UNCHANGED <<applyArg, inflight, err, exitCode>>

(* ScaleBurst, were the two snapshots taken with each other's count *)
ScaleBurst_SnapshotsSwapped ==
    /\ pc = "scale"
    /\ patternName = "burst"
    /\ maxResourceObjects' = updateReplicas(resources, AddrOf("min"), Memory)
    /\ minResourceObjects' = updateReplicas(updatedResources(resources, AddrOf("min")),
                                            AddrOf("max"), Memory)
    /\ resources' = updatedResources(updatedResources(resources, AddrOf("min")), AddrOf("max"))
    /\ updateCalls' = updateCalls + 2
    /\ pc' = "burst_apply_max"
    /\ UNCHANGED <<cmdVars, scalingFactor, resourceObjects, numberOfResources,
                   applyArg, inflight, err, exitCode, log>>

ScaleBurst ==
    /\ pc = "scale"
    /\ patternName = "burst"
    /\ maxResourceObjects' = updateReplicas(resources, AddrOf("max"), Memory)
    /\ minResourceObjects' = updateReplicas(updatedResources(resources, AddrOf("max")),
                                            AddrOf("min"), Memory)
    /\ resources' = updatedResources(updatedResources(resources, AddrOf("max")), AddrOf("min"))
    /\ updateCalls' = updateCalls + 2
    /\ pc' = "burst_apply_max"
    /\ UNCHANGED <<cmdVars, scalingFactor, resourceObjects, numberOfResources,
                   applyArg, inflight, err, exitCode, log>>

BurstApplyMaxCall ==
    /\ pc = "burst_apply_max"
    /\ ResourceApplyCall(maxResourceObjects, "burst_in_apply_max")
    /\ UNCHANGED <<cmdVars, scalingFactor, resources, maxResourceObjects,
                   minResourceObjects, resourceObjects, numberOfResources, err, exitCode, updateCalls>>

BurstApplyMaxReturn ==
    /\ pc = "burst_in_apply_max"
    /\ ResourceApplyReturn("burst_sleep_after_max")
    /\ UNCHANGED <<cmdVars, scalingFactor, resources, maxResourceObjects,
                   minResourceObjects, resourceObjects, numberOfResources, updateCalls>>

BurstSleepAfterMax ==
    /\ pc = "burst_sleep_after_max"
    /\ Sleep("burst_apply_min")
    /\ UNCHANGED <<cmdVars, scalingFactor, resources, maxResourceObjects,
                   minResourceObjects, resourceObjects, numberOfResources, updateCalls>>

BurstApplyMinCall ==
    /\ pc = "burst_apply_min"
    /\ ResourceApplyCall(minResourceObjects, "burst_in_apply_min")
    /\ UNCHANGED <<cmdVars, scalingFactor, resources, maxResourceObjects,
                   minResourceObjects, resourceObjects, numberOfResources, err, exitCode, updateCalls>>

BurstApplyMinReturn ==
    /\ pc = "burst_in_apply_min"
    /\ ResourceApplyReturn("burst_sleep_after_min")
    /\ UNCHANGED <<cmdVars, scalingFactor, resources, maxResourceObjects,
                   minResourceObjects, resourceObjects, numberOfResources, updateCalls>>

BurstSleepAfterMin ==
    /\ pc = "burst_sleep_after_min"
    /\ Sleep("burst_apply_max")
    /\ UNCHANGED <<cmdVars, scalingFactor, resources, maxResourceObjects,
                   minResourceObjects, resourceObjects, numberOfResources, updateCalls>>

(* DerivedScalingFactor, were the comparison with max strict *)
DerivedScalingFactor_StrictlyGreater(factor, mx) ==
    IF factor > mx \/ factor = 0 THEN DivInt32(mx, 10) ELSE factor

(* the scaling factor the step loop runs with *)
DerivedScalingFactor(factor, mx) ==
    IF factor >= mx \/ factor = 0 THEN DivInt32(mx, 10) ELSE factor

ScaleStep ==
    /\ pc = "scale"
    /\ patternName = "step"
    /\ scalingFactor' = DerivedScalingFactor(scalingFactor, max)
    /\ numberOfResources' = min
    /\ pc' = "step_apply"
    /\ UNCHANGED <<cmdVars, resources, maxResourceObjects, minResourceObjects,
                   resourceObjects, applyArg, inflight, err, exitCode, updateCalls, log>>

StepApplyCall ==
    /\ pc = "step_apply"
    /\ LET objs == updateReplicas(resources, AddrOf("numberOfResources"), Memory)
       IN /\ resourceObjects' = objs
          /\ ResourceApplyCall(objs, "step_in_apply")
    /\ resources' = updatedResources(resources, AddrOf("numberOfResources"))
    /\ updateCalls' = updateCalls + 1
    /\ UNCHANGED <<cmdVars, scalingFactor, maxResourceObjects, minResourceObjects,
                   numberOfResources, err, exitCode>>

StepApplyReturn ==
    /\ pc = "step_in_apply"
    /\ ResourceApplyReturn("step_sleep")
    /\ UNCHANGED <<cmdVars, scalingFactor, resources, maxResourceObjects,
                   minResourceObjects, resourceObjects, numberOfResources, updateCalls>>

StepSleep ==
    /\ pc = "step_sleep"
    /\ Sleep("step_increment")
    /\ UNCHANGED <<cmdVars, scalingFactor, resources, maxResourceObjects,
                   minResourceObjects, resourceObjects, numberOfResources, updateCalls>>

(* numberOfResources += s.scalingFactor, then the clamp to s.max *)
Incremented(n, factor, mx) ==
    LET sum == AddInt32(n, factor)
    IN IF sum > mx THEN mx ELSE sum

StepIncrement ==
    /\ pc = "step_increment"
    /\ numberOfResources' = Incremented(numberOfResources, scalingFactor, max)
    /\ pc' = "step_apply"
    /\ UNCHANGED <<cmdVars, scalingFactor, resources, maxResourceObjects,
                   minResourceObjects, resourceObjects, applyArg, inflight, err,
                   exitCode, updateCalls, log>>

(* InvalidPattern, were os.Exit left out: scale() returns nil *)
InvalidPattern_Returns ==
    /\ pc = "scale"
    /\ patternName # "burst"
    /\ patternName # "step"
    /\ exitCode' = 0
    /\ pc' = "exited"
    /\ UNCHANGED <<cmdVars, scalingFactor, resources, maxResourceObjects,
                   minResourceObjects, resourceObjects, numberOfResources,
                   applyArg, inflight, err, updateCalls, log>>

InvalidPattern ==
    /\ pc = "scale"
    /\ patternName # "burst"
    /\ patternName # "step"
    /\ exitCode' = 2
    /\ pc' = "exited"
    /\ UNCHANGED <<cmdVars, scalingFactor, resources, maxResourceObjects,
                   minResourceObjects, resourceObjects, numberOfResources,
                   applyArg, inflight, err, updateCalls, log>>

Next ==
    \/ ScaleBurst
    \/ BurstApplyMaxCall
    \/ BurstApplyMaxReturn
    \/ BurstSleepAfterMax
    \/ BurstApplyMinCall
    \/ BurstApplyMinReturn
    \/ BurstSleepAfterMin
    \/ ScaleStep
    \/ StepApplyCall
    \/ StepApplyReturn
    \/ StepSleep
    \/ StepIncrement
    \/ InvalidPattern

Spec == Init /\ [][Next]_vars

SpecTargets == InitTargets /\ [][Next]_vars

(* scale() runs in one goroutine that nothing preempts for ever, sleeps end *)
(* and the cluster answers every call                                       *)
FairSpec == Spec /\ WF_vars(Next)

-----------------------------------------------------------------------------
(* Properties. *)

ValidPattern == patternName \in {"burst", "step"}

(* the counts of the k-th apply (k = 1 for the first) are all equal to c;  *)
(* an applied set without deployments carries no count                     *)
Carries(k, c) == Applies[k].counts \subseteq {c}

(* some run has applied a set that holds deployments, k times or more *)
AppliedDeployments(k) ==
    /\ NumApplies >= k
    /\ \A i \in 1..NumApplies : Applies[i].counts # {}

(* C1: in both patterns, for 0 <= min <= max and any scaling factor, every *)
(* replica count passed to ResourceApply lies within [min, max].           *)
C1_AppliedWithinMinMax ==
    (ValidPattern /\ 0 <= min /\ min <= max) =>
        \A k \in 1..NumApplies : \A c \in Applies[k].counts : min <= c /\ c <= max

(* C2: in the burst pattern the k-th apply carries max when k is the       *)
(* first, third, ... apply and min when it is the second, fourth, ...,     *)
(* whatever the earlier applies returned.                                  *)
C2_BurstAlternates ==
    patternName = "burst" =>
        \A k \in 1..NumApplies : Carries(k, IF k % 2 = 1 THEN max ELSE min)

C2_Witness ==
    /\ patternName = "burst"
    /\ min < max
    /\ AppliedDeployments(4)
    /\ err = "error"

(* the sum of a and b clamped to mx, over the integers: ok is false when   *)
(* the value is no int32, so that no applied count can equal it            *)
ClampedSum(a, b, mx) ==
    IF b >= 0
    THEN [ok |-> TRUE, val |-> IF a > mx - b THEN mx ELSE a + b]
    ELSE IF a < MinInt32 - b
         THEN [ok |-> FALSE, val |-> 0]
         ELSE [ok |-> TRUE, val |-> IF a + b > mx THEN mx ELSE a + b]

(* the smaller of max and min + k * scalingFactor, over the integers *)
RECURSIVE Ramp(_)
Ramp(k) ==
    IF k = 0
    THEN [ok |-> TRUE, val |-> min]
    ELSE LET prev == Ramp(k - 1)
         IN IF prev.ok THEN ClampedSum(prev.val, scalingFactor, max) ELSE prev

InStepLoop == patternName = "step" /\ pc # "scale"

(* C3: in the step pattern the first apply carries min and the apply       *)
(* number k (k = 0 for the first) carries the smaller of max and           *)
(* min + k * factor, factor being the effective scaling factor.            *)
C3_StepRamp ==
    (InStepLoop /\ 0 <= min /\ min <= max) =>
        \A k \in 1..NumApplies : Ramp(k - 1).ok /\ Carries(k, Ramp(k - 1).val)

(* numberOfResources += s.scalingFactor wraps around at the value a *)
Wraps(a, factor) ==
    \/ factor > 0 /\ a > MaxInt32 - factor
    \/ factor < 0 /\ a < MinInt32 - factor

(* none of the first k additions of the step loop wraps around *)
RECURSIVE NoWrap(_)
NoWrap(k) ==
    IF k = 0
    THEN TRUE
    ELSE NoWrap(k - 1) /\ Ramp(k - 1).ok /\ ~Wraps(Ramp(k - 1).val, scalingFactor)

(* C3, where no addition wraps around: the ramp is the one of the claim *)
C3_StepRampNoWrap ==
    (InStepLoop /\ 0 <= min /\ min <= max) =>
        \A k \in 1..NumApplies : NoWrap(k - 1) => Carries(k, Ramp(k - 1).val)

(* C4, its second half: in the step pattern, once an apply has carried max *)
(* every later apply carries max.                                          *)
C4_HoldsAtMax ==
    (InStepLoop /\ 0 <= min /\ min <= max) =>
        \A j \in 1..NumApplies : \A k \in j..NumApplies :
            (Applies[j].counts = {max}) => Carries(k, max)

(* C4, its first half, where the derived factor is 0: the counter stays at *)
(* min and no apply ever carries a higher count.                           *)
C4_ZeroFactorStaysAtMin ==
    (InStepLoop /\ scalingFactor = 0) =>
        /\ numberOfResources = min
        /\ \A k \in 1..NumApplies : Carries(k, min)

C4_ZeroFactorWitness ==
    /\ InStepLoop
    /\ argScalingFactor = 0
    /\ scalingFactor = 0
    /\ min < max
    /\ AppliedDeployments(MaxApplies)

(* C5: in the step pattern the effective scaling factor is set before the  *)
(* first apply and stays: max / 10 when the given factor is 0 or >= max,   *)
(* the given factor in every other case.                                   *)
C5_EffectiveFactor ==
    InStepLoop =>
        scalingFactor = IF argScalingFactor = 0 \/ argScalingFactor >= max
                        THEN max \div 10
                        ELSE argScalingFactor

C5_Witness ==
    /\ InStepLoop
    /\ argScalingFactor = max
    /\ max >= 10
    /\ scalingFactor # argScalingFactor
    /\ AppliedDeployments(3)

(* C6: with a pattern name other than "burst" and "step" the process exits *)
(* with a non-zero code, and no ResourceApply and no updateReplicas call   *)
(* is made in the run.                                                     *)
C6_InvalidPatternExits ==
    /\ [](~ValidPattern => NumApplies = 0 /\ inflight = 0 /\ updateCalls = 0)
    /\ [](~ValidPattern /\ pc # "scale" => pc = "exited" /\ exitCode = 2)
    /\ (~ValidPattern => <>(pc = "exited" /\ exitCode # 0))

C6_Witness ==
    /\ patternName = "foo"
    /\ pc = "exited"
    /\ exitCode = 2
    /\ Len(resources) > 0

SleepPcs == {"burst_sleep_after_max", "burst_sleep_after_min", "step_sleep"}

(* the count of the k-th cycle of the step loop (k = 0 for the first), as  *)
(* int32 arithmetic gives it, from the command alone                       *)
RECURSIVE StepCount(_)
StepCount(k) ==
    IF k = 0
    THEN min
    ELSE LET sum == AddInt32(StepCount(k - 1), scalingFactor)
         IN IF sum > max THEN max ELSE sum

(* the count the pattern gives its k-th apply (k = 1 for the first) *)
PatternCount(k) ==
    IF patternName = "burst"
    THEN (IF k % 2 = 1 THEN max ELSE min)
    ELSE StepCount(k - 1)

(* C7: a failed apply is not fatal and is not retried: the loop sleeps one *)
(* interval and issues the next apply of the pattern, so that the counts   *)
(* applied are those of the pattern whatever the applies returned.         *)
C7_FailedApplyContinues ==
    /\ [](ValidPattern /\ pc # "scale" =>
            \A k \in 1..NumApplies : Carries(k, PatternCount(k)))
    /\ [][/\ (inflight' < inflight /\ err' = "error") =>
                (pc' \in SleepPcs /\ log' = log /\ numberOfResources' = numberOfResources)
          /\ (err = "error" /\ pc \in SleepPcs) =>
                (log' = Append(log, SleepEvent(interval)) /\ pc' \notin SleepPcs)
          /\ (err = "error" /\ NumApplies' > NumApplies) =>
                /\ Len(log) >= 2
                /\ log[Len(log)].op = "sleep"
                /\ log[Len(log) - 1].op = "apply"
                /\ Applies'[NumApplies'].counts \subseteq {PatternCount(NumApplies')}
         ]_vars

C7_Witness ==
    /\ patternName = "step"
    /\ min < max
    /\ scalingFactor > 0
    /\ err = "error"
    /\ pc = "step_in_apply"
    /\ AppliedDeployments(3)
    /\ Applies[NumApplies].counts # Applies[NumApplies - 1].counts

(* the objects of a resource set *)
ObjectsOf(set) ==
    UNION {{set[i].Objects[j] : j \in 1..Len(set[i].Objects)} : i \in 1..Len(set)}

NumObjects(set) == Cardinality({<<i, j>> \in (1..Len(set)) \X (1..MaxObjects + 1) :
                                   j <= Len(set[i].Objects)})

Identity(o) == <<o.Kind, o.Name>>

(* result holds exactly the deployments of the target set, once each, every *)
(* one with the replica count c, and nothing else                           *)
ExactlyDeployments(result, c) ==
    /\ {Identity(o) : o \in ObjectsOf(result)} =
           {Identity(o) : o \in {t \in ObjectsOf(resources) : t.Kind = "Deployment"}}
    /\ NumObjects(result) = Cardinality({o \in ObjectsOf(resources) : o.Kind = "Deployment"})
    /\ \A o \in ObjectsOf(result) :
           /\ o.Kind = "Deployment"
           /\ o.Replicas.loc # "nil"
           /\ Deref(o.Replicas, Memory) = c

(* C8: updateReplicas with the count c returns exactly the objects of kind *)
(* deployment of the target set, each with the replica count c, and no     *)
(* object of another kind.                                                 *)
C8_OnlyDeploymentsWithCount ==
    /\ (patternName = "burst" /\ pc # "scale") =>
           /\ ExactlyDeployments(maxResourceObjects, max)
           /\ ExactlyDeployments(minResourceObjects, min)
    /\ (patternName = "step" /\ pc \in {"step_in_apply", "step_sleep", "step_increment"}) =>
           ExactlyDeployments(resourceObjects, numberOfResources)

C8_Witness ==
    /\ patternName = "step"
    /\ pc = "step_sleep"
    /\ numberOfResources = 2
    /\ Len(resources) = 2
    /\ Len(resourceObjects) = 1
    /\ Len(resourceObjects[1].Objects) = 1
    /\ \E o \in ObjectsOf(resources) : o.Kind # "Deployment"
    /\ \E i \in 1..Len(resources) : Len(resources[i].Objects) = 2

(* C9: in the burst and the step pattern scale() never returns and the     *)
(* process never exits, and a further apply is always issued, whatever the *)
(* applies return (followed up to MaxApplies applies).                     *)
C9_NeverTerminates ==
    /\ [](ValidPattern => pc # "exited")
    /\ \A k \in 0..(MaxApplies - 1) :
           (ValidPattern /\ NumApplies = k) ~> (NumApplies = k + 1)

C9_Witness ==
    /\ patternName = "step"
    /\ NumApplies = MaxApplies
    /\ pc = "step_apply"
    /\ err = "error"

(* C10: one sequential actor on a fixed cadence: the first apply precedes  *)
(* every sleep, consecutive applies are separated by exactly one sleep of  *)
(* length interval, and at most one apply is in progress.                  *)
C10_FixedCadence ==
    /\ \A i \in 1..Len(log) :
           IF i % 2 = 1
           THEN log[i].op = "apply"
           ELSE log[i].op = "sleep" /\ log[i].d = interval
    /\ inflight \in {0, 1}
    /\ inflight = 1 <=> pc \in {"burst_in_apply_max", "burst_in_apply_min", "step_in_apply"}
    /\ inflight = 1 => Len(log) > 0 /\ log[Len(log)].op = "apply"

C10_Witness ==
    /\ patternName = "burst"
    /\ interval = 2
    /\ Len(log) >= 5
    /\ inflight = 1

(* C11: in the step pattern, for 0 <= min <= max and any scaling factor,   *)
(* the count of every apply is greater than or equal to the count of the   *)
(* apply before it.                                                        *)
C11_StepMonotonic ==
    (InStepLoop /\ 0 <= min /\ min <= max) =>
        \A k \in 2..NumApplies :
            \A a \in Applies[k - 1].counts : \A b \in Applies[k].counts : a <= b

(* C11, for the factors that are not negative, where no addition wraps *)
C11_StepMonotonicNoWrap ==
    (InStepLoop /\ 0 <= min /\ min <= max /\ scalingFactor >= 0) =>
        \A k \in 2..NumApplies :
            NoWrap(k - 1) =>
                \A a \in Applies[k - 1].counts : \A b \in Applies[k].counts : a <= b

(* a resource set without the replica counts of its deployments *)
WithoutReplicas(set) ==
    [i \in 1..Len(set) |->
        [FileName |-> set[i].FileName,
         Objects |-> [j \in 1..Len(set[i].Objects) |->
                         IF set[i].Objects[j].Kind = "Deployment"
                         THEN [set[i].Objects[j] EXCEPT !.Replicas = NilPtr]
                         ELSE set[i].Objects[j]]]]

(* C12: no step of the run, an updateReplicas call or an apply among them, *)
(* changes the loaded target set in anything but the replica count of its  *)
(* deployments: the descriptors, their order and file names, their object  *)
(* lists and every object of another kind stay as they are.                *)
C12_OnlyReplicasChange ==
    [][WithoutReplicas(resources') = WithoutReplicas(resources)]_vars

C12_Witness ==
    /\ patternName = "step"
    /\ NumApplies >= 2
    /\ Len(resources) = 2
    /\ \E o \in ObjectsOf(resources) : o.Kind # "Deployment"
    /\ \E o \in ObjectsOf(resources) :
           o.Kind = "Deployment" /\ o.Replicas = AddrOf("numberOfResources")
    /\ \E i \in 1..Len(resources) : \A j \in 1..Len(resources[i].Objects) :
           resources[i].Objects[j].Kind # "Deployment"

(* the replicas pointers of a returned set point to cells of their own,    *)
(* none to a variable of the scaler or to a cell of the loaded set         *)
OwnCells(set) == \A o \in ObjectsOf(set) : o.Replicas.loc = "copy"

(* C13: a set returned by updateReplicas is an independent copy: a later   *)
(* updateReplicas call with another count and a later change of the        *)
(* variable whose address was passed leave its replica counts as they      *)
(* were.  In burst the max snapshot carries max and the min snapshot min   *)
(* in every later state; in step the set applied in a cycle carries that   *)
(* cycle's count after the counter is incremented.                         *)
C13_IndependentCopy ==
    /\ (patternName = "burst" /\ pc # "scale") =>
           /\ OwnCells(maxResourceObjects) /\ OwnCells(minResourceObjects)
           /\ CountsOf(maxResourceObjects, Memory) \subseteq {max}
           /\ CountsOf(minResourceObjects, Memory) \subseteq {min}
    /\ (InStepLoop /\ NumApplies >= 1) =>
           /\ OwnCells(resourceObjects)
           /\ CountsOf(resourceObjects, Memory) = Applies[NumApplies].counts
           /\ \A k \in 1..NumApplies :
                  CountsOf(Applies[k].arg, Memory) = Applies[k].counts

C13_Witness ==
    /\ patternName = "step"
    /\ pc = "step_apply"
    /\ NumApplies >= 2
    /\ resourceObjects # <<>>
    /\ numberOfResources \notin CountsOf(resourceObjects, Memory)
    /\ CountsOf(Applies[1].arg, Memory) # CountsOf(Applies[2].arg, Memory)

(* C14: in the step pattern, for int32 values with 0 <= min <= max, the    *)
(* addition numberOfResources += s.scalingFactor never wraps around: the   *)
(* value the clamp sees is the sum over the integers.                      *)
C14_AdditionNeverWraps ==
    (InStepLoop /\ 0 <= min /\ min <= max /\ pc = "step_increment") =>
        /\ ~Wraps(numberOfResources, scalingFactor)
        /\ AddInt32(numberOfResources, scalingFactor) = numberOfResources + scalingFactor

(* C14, where max + scalingFactor is an int32 and the factor is not        *)
(* negative: the counter stays within [min, max] and no addition wraps     *)
C14_NoWrapBelowLimit ==
    (InStepLoop /\ 0 <= min /\ min <= max /\ scalingFactor >= 0
        /\ max <= MaxInt32 - scalingFactor) =>
        /\ min <= numberOfResources /\ numberOfResources <= max
        /\ ~Wraps(numberOfResources, scalingFactor)

HasDeployment(descriptor) ==
    \E j \in 1..Len(descriptor.Objects) : descriptor.Objects[j].Kind = "Deployment"

IsDeploymentKind(o) == o.Kind = "Deployment"

NamesOf(objects) == [j \in 1..Len(objects) |-> Identity(objects[j])]

(* result keeps the structure of the target set: its descriptors are those *)
(* of the target set that hold a deployment, in the same order, each with  *)
(* its file name and its deployments in their order                        *)
KeepsStructure(result) ==
    LET kept == SelectSeq(resources, HasDeployment)
    IN /\ Len(result) = Len(kept)
       /\ \A i \in 1..Len(result) :
              /\ result[i].FileName = kept[i].FileName
              /\ NamesOf(result[i].Objects) =
                     NamesOf(SelectSeq(kept[i].Objects, IsDeploymentKind))
              /\ Len(result[i].Objects) > 0

(* C15: updateReplicas keeps the structure of the target set for what it   *)
(* retains: descriptors in the same order, each with its file name and its *)
(* deployments in their order, and no descriptor without a deployment; no  *)
(* descriptor with an empty object list is passed to ResourceApply.        *)
C15_KeepsStructure ==
    /\ (patternName = "burst" /\ pc # "scale") =>
           KeepsStructure(maxResourceObjects) /\ KeepsStructure(minResourceObjects)
    /\ (InStepLoop /\ updateCalls >= 1) => KeepsStructure(resourceObjects)
    /\ \A k \in 1..NumApplies :
           /\ KeepsStructure(Applies[k].arg)
           /\ \A i \in 1..Len(Applies[k].arg) : Len(Applies[k].arg[i].Objects) > 0

C15_Witness ==
    /\ patternName = "burst"
    /\ NumApplies >= 2
    /\ Len(resources) = 2
    /\ ~HasDeployment(resources[1])
    /\ Len(resources[2].Objects) = 2
    /\ resources[2].Objects[1].Kind = "Service"
    /\ Len(maxResourceObjects) = 1
    /\ maxResourceObjects[1].FileName = 2
    /\ Len(maxResourceObjects[1].Objects) = 1

====
